---- MODULE Spec2Model ----
(***************************************************************************)
(* Document review panel (DRS-2): the manifest/storage reconciliation of   *)
(* load_data, the comparison pair generator and the page script main().    *)
(*                                                                         *)
(* Three specifications share the variables:                              *)
(*   SpecLoad  - load_data alone, over every manifest, configuration and   *)
(*               per-call head_object response pattern within the bounds;  *)
(*   SpecPairs - generate_comparison_pairs as a pure function;             *)
(*   Spec      - the page script: one run of main() per page render or     *)
(*               widget interaction, over a fixed object store.            *)
(***************************************************************************)
EXTENDS Integers, Sequences, FiniteSets, TLC

(* ------------------------------ bounds --------------------------------- *)
\* longest CSV manifest enumerated for load_data
MaxRows == 2
\* batch_count values of the CSV manifests enumerated for load_data
LoadMaxVersion == 2
\* versions (batch_count values) of the page script are 1..MaxVersion
MaxVersion == 3
\* longest version list handed to generate_comparison_pairs
MaxLen == 4
\* longest CSV manifest enumerated for the page script
AppMaxRows == 3
\* longest audit trail handed to export_audit_trail
MaxEntries == 2

(* --------------------------- value universes --------------------------- *)
\* batch identifiers in sorted() order; sorted(S) over batches is the
\* subsequence of BatchOrder whose elements are in S
BatchOrder == <<"B001", "B002", "B003">>

CsvBatches == {"B001", "B002"}

Versions == 1..MaxVersion

\* mutant: the document types iterated in the opposite order
DocTypesReversed == <<"PL", "CI">>

\* utils.py:43  for doc_type in ['CI', 'PL']
DocTypes == <<"CI", "PL">>

\* s3_utils.py:70  get_secret('base_prefix', 'Doc_Review/')
base_prefix == "Doc_Review/"

None == "None"

Range(s) == {s[i] : i \in 1..Len(s)}

(* ------------------------------ manifest ------------------------------- *)
ManifestRow(b, c, st, rs) ==
    [Batch |-> b, batch_count |-> c, portal_status |-> st, reason |-> rs]

\* utils.py:21-27  the embedded sample used when data/Manual_Review.csv
\* does not exist
SampleManifest ==
    << ManifestRow("B001", 1, "Pending", ""),
       ManifestRow("B001", 2, "Accepted", "Approved by agent"),
       ManifestRow("B002", 1, "Rejected", "Missing information"),
       ManifestRow("B002", 2, "Pending", ""),
       ManifestRow("B003", 1, "Accepted", "Complete documentation") >>

\* rows a CSV manifest of load_data is drawn from: every batch and version,
\* pending at odd versions and accepted at even ones
CsvRowUniverse ==
    {ManifestRow(b, c, "Pending", "") :
        b \in CsvBatches, c \in {v \in 1..LoadMaxVersion : v % 2 = 1}}
    \cup {ManifestRow(b, c, "Accepted", "Approved by agent") :
            b \in CsvBatches, c \in {v \in 1..LoadMaxVersion : v % 2 = 0}}

SeqsUpTo(S, n) == UNION {[1..k -> S] : k \in 0..n}

\* utils.py:18-27  the manifest load_data works on: the CSV when it exists
\* (pd.read_csv raises when it cannot be read), the sample otherwise
ReadManifest(src, rows) ==
    IF src = "csv" THEN [raised |-> FALSE, rows |-> rows]
    ELSE IF src = "missing" THEN [raised |-> FALSE, rows |-> SampleManifest]
    ELSE [raised |-> TRUE, rows |-> <<>>]

(* ------------------------------ storage -------------------------------- *)
\* utils.py:44  f'{doc_type}/{batch}/{batch}_{count}.pdf'
S3Key(doc_type, batch, count) ==
    [dir |-> doc_type, batch |-> batch, file |-> <<batch, count, "pdf">>]

\* utils.py:60  f'{batch}_{count}.pdf'
Filename(batch, count) == <<batch, count, "pdf">>

\* s3_utils.py:61-71
get_full_s3_key(relative_key) == [prefix |-> base_prefix, key |-> relative_key]

\* s3_utils.py:8-13  a secret is its configured value or None
get_secret(secrets, key) == IF key \in secrets THEN key ELSE None

\* s3_utils.py:15-59  the client, or None when a credential is missing or
\* the connection test (list_buckets) fails
get_s3_client(secrets, reachable) ==
    IF get_secret(secrets, "access_key_id") = None
       \/ get_secret(secrets, "secret_access_key") = None
    THEN None
    ELSE IF reachable THEN "client" ELSE None

\* s3_utils.py:30-32, 49-53  the st.error messages get_s3_client shows
get_s3_client_errors(secrets, reachable) ==
    IF get_secret(secrets, "access_key_id") = None
       \/ get_secret(secrets, "secret_access_key") = None
    THEN <<"AWS credentials not properly configured">>
    ELSE IF reachable THEN <<>>
    ELSE <<"AWS Connection Test Failed", "Error type", "Full error">>

\* mutant: the existence check never fails
head_objectAlways(s3_client, answer) == TRUE

\* utils.py:48-53  head_object on the client: raises (FALSE) when the client
\* is None (attribute lookup on None) or when the call itself raises
head_object(s3_client, answer) ==
    IF s3_client = None THEN FALSE ELSE answer

(* ------------------------------ load_data ------------------------------ *)
\* utils.py:55-64  the record appended for a present document (its
\* 'timestamp', the wall clock of the load, is left out)
DocumentRecord(row, doc_type) ==
    [batch |-> row.Batch,
     type |-> doc_type,
     version |-> row.batch_count,
     file_path |-> S3Key(doc_type, row.Batch, row.batch_count),
     filename |-> Filename(row.Batch, row.batch_count),
     portal_status |-> row.portal_status,
     reason |-> row.reason]

\* position of the probe for (row i, doc type j) in the sequence of
\* head_object calls of one load
ProbeIndex(i, j) == 2 * (i - 1) + j

\* mutant: a failed probe leaves the inner loop (break instead of continue)
RECURSIVE LoadDocTypesBreak(_, _, _, _, _, _)
LoadDocTypesBreak(row, i, j, s3_client, answers, acc) ==
    IF j > 2 THEN acc
    ELSE
      LET doc_type == IF j = 1 THEN "CI" ELSE "PL"
          full_key == get_full_s3_key(S3Key(doc_type, row.Batch, row.batch_count))
          file_exists == head_object(s3_client, answers[ProbeIndex(i, j)])
          probed == Append(acc.probed, [key |-> full_key, ok |-> file_exists])
      IN IF file_exists
         THEN LoadDocTypesBreak(row, i, j + 1, s3_client, answers,
                [acc EXCEPT !.file_data = Append(@, DocumentRecord(row, doc_type)),
                            !.probed = probed])
         ELSE [acc EXCEPT !.skipped = Append(@, full_key),
                          !.errors = Append(@, "File not found in S3"),
                          !.probed = probed]

\* utils.py:43-64  the inner loop for one manifest row, doc types j..2,
\* acc = [file_data, skipped, errors, probed]
RECURSIVE LoadDocTypes(_, _, _, _, _, _)
LoadDocTypes(row, i, j, s3_client, answers, acc) ==
    IF j > Len(DocTypes) THEN acc
    ELSE
      LET doc_type == DocTypes[j]
          s3_key == S3Key(doc_type, row.Batch, row.batch_count)
          full_key == get_full_s3_key(s3_key)
          file_exists == head_object(s3_client, answers[ProbeIndex(i, j)])
          probed == Append(acc.probed, [key |-> full_key, ok |-> file_exists])
      IN IF file_exists
         THEN LoadDocTypes(row, i, j + 1, s3_client, answers,
                [acc EXCEPT !.file_data = Append(@, DocumentRecord(row, doc_type)),
                            !.probed = probed])
         ELSE LoadDocTypes(row, i, j + 1, s3_client, answers,
                [acc EXCEPT !.skipped = Append(@, full_key),
                            !.errors = Append(@, "File not found in S3"),
                            !.probed = probed])

\* utils.py:37-64  the outer loop over the manifest rows i..Len(rows)
RECURSIVE LoadRows(_, _, _, _, _)
LoadRows(rows, i, s3_client, answers, acc) ==
    IF i > Len(rows) THEN acc
    ELSE LoadRows(rows, i + 1, s3_client, answers,
                  LoadDocTypes(rows[i], i, 1, s3_client, answers, acc))

EmptyLoad ==
    [file_data |-> <<>>, skipped |-> <<>>, errors |-> <<>>, probed |-> <<>>]

\* the value load_data returns to its caller, with what it reported
LoadResult(frame, skippedKeys, messages, probes, cut) ==
    [df |-> frame, skipped |-> skippedKeys, errors |-> messages,
     probed |-> probes, raised |-> FALSE, aborted |-> cut]

\* utils.py:66-70  the frame of the collected records, or the empty frame
\* and an error when there is none
ReturnFrame(acc) ==
    IF acc.file_data = <<>>
    THEN LoadResult(<<>>, acc.skipped,
                    Append(acc.errors, "No files found in S3"), acc.probed,
                    FALSE)
    ELSE LoadResult(acc.file_data, acc.skipped, acc.errors, acc.probed, FALSE)

\* utils.py:29-70  the client and the bucket name, then the loop
Reconcile(rows, s3_client, client_errors, bucket_name, answers) ==
    IF bucket_name = None
    THEN LoadResult(<<>>, <<>>,
                    Append(client_errors, "S3 bucket name not configured"),
                    <<>>, TRUE)
    ELSE ReturnFrame(LoadRows(rows, 1, s3_client, answers,
                              [EmptyLoad EXCEPT !.errors = client_errors]))

\* utils.py:15-73  load_data: [df, skipped, errors, probed, raised, aborted].
\* df is the returned frame (<<>> is the empty, column-less pd.DataFrame());
\* raised tells whether an exception leaves load_data (the except clause of
\* line 71 catches every one); aborted tells whether it returned before the
\* reconciliation loop.
load_data(src, rows, secrets, reachable, answers) ==
    IF ReadManifest(src, rows).raised
    THEN LoadResult(<<>>, <<>>, <<"Error loading data">>, <<>>, TRUE)
    ELSE Reconcile(ReadManifest(src, rows).rows,
                   get_s3_client(secrets, reachable),
                   get_s3_client_errors(secrets, reachable),
                   get_secret(secrets, "bucket_name"), answers)

(* ------------------------- comparison pairs ---------------------------- *)
\* mutant: the full-span pair is put first instead of last
generate_comparison_pairsSpanFirst(versions) ==
    IF Len(versions) < 2 THEN <<>>
    ELSE LET pairs == [i \in 1..(Len(versions) - 1) |->
                          <<versions[i], versions[i + 1]>>]
         IN IF Len(versions) > 2
            THEN <<(<<versions[1], versions[Len(versions)]>>)>> \o pairs
            ELSE pairs

\* mutant: no early return, the span pair appended to any non-empty list
generate_comparison_pairsNoGuard(versions) ==
    IF Len(versions) = 0 THEN <<>>
    ELSE Append([i \in 1..(Len(versions) - 1) |->
                    <<versions[i], versions[i + 1]>>],
                <<versions[1], versions[Len(versions)]>>)

\* mutant: the span pair appended from 2 versions on (>= 2 instead of > 2)
generate_comparison_pairsAlwaysSpan(versions) ==
    IF Len(versions) < 2 THEN <<>>
    ELSE Append([i \in 1..(Len(versions) - 1) |->
                    <<versions[i], versions[i + 1]>>],
                <<versions[1], versions[Len(versions)]>>)

\* utils.py:265-272
generate_comparison_pairs(versions) ==
    IF Len(versions) < 2 THEN <<>>
    ELSE LET pairs == [i \in 1..(Len(versions) - 1) |->
                          <<versions[i], versions[i + 1]>>]
         IN IF Len(versions) > 2
            THEN Append(pairs, <<versions[1], versions[Len(versions)]>>)
            ELSE pairs

(* ------------------------------- state --------------------------------- *)
VARIABLES
    source,      \* "csv" | "missing" | "unreadable": data/Manual_Review.csv
    csvRows,     \* the rows of the CSV manifest
    secrets,     \* the configured secrets (names)
    reachable,   \* whether the connection test list_buckets() succeeds
    answers,     \* head_object outcome per probe call of the last load
    loaded,      \* whether load_data has been called
    df,          \* records returned by the last load_data
    skipped,     \* full keys reported "File not found in S3" by the last load
    errors,      \* st.error messages of the last load, in order
    probed,      \* head_object calls of the last load with their outcome
    raised,      \* whether the last load_data raised to its caller
    aborted,     \* whether the last load_data returned before its loop
    versionsIn,  \* argument of generate_comparison_pairs
    pairsOut,    \* its result
    called,      \* whether generate_comparison_pairs has been called
    present,     \* full keys for which head_object succeeds (page script)
    session,     \* st.session_state: a function from the keys that are set
    ui,          \* what the last run of main() put on the page
    auditIn,     \* argument of export_audit_trail
    csvOut,      \* the CSV text it returned
    auditStored, \* whether its upload to the audit sink succeeded
    exported     \* whether export_audit_trail has been called

envVars == <<source, csvRows, secrets, reachable>>
loadVars == <<answers, loaded, df, skipped, errors, probed, raised, aborted>>
pairVars == <<versionsIn, pairsOut, called>>
appVars == <<present, session, ui>>
auditVars == <<auditIn, csvOut, auditStored, exported>>
vars == <<envVars, loadVars, pairVars, appVars, auditVars>>

SecretNames == {"access_key_id", "secret_access_key", "bucket_name"}

Manifest == ReadManifest(source, csvRows).rows

InitLoadVars ==
    /\ answers = <<>>
    /\ loaded = FALSE
    /\ df = <<>>
    /\ skipped = <<>>
    /\ errors = <<>>
    /\ probed = <<>>
    /\ raised = FALSE
    /\ aborted = FALSE

InitPairVars ==
    /\ versionsIn = <<>>
    /\ pairsOut = <<>>
    /\ called = FALSE

\* the page before the first run of the script
BlankPage ==
    [outcome |-> "init", batches |-> <<>>, pairs |-> <<>>, viewers |-> <<>>]

InitAppVars ==
    /\ present = {}
    /\ session = <<>>
    /\ ui = BlankPage

InitAuditVars ==
    /\ auditIn = <<>>
    /\ csvOut = <<>>
    /\ auditStored = FALSE
    /\ exported = FALSE

(* ------------------------ SpecLoad: load_data -------------------------- *)
InitLoad ==
    /\ source \in {"csv", "missing", "unreadable"}
    /\ csvRows \in (IF source = "csv" THEN SeqsUpTo(CsvRowUniverse, MaxRows)
                    ELSE {<<>>})
    /\ secrets \in SUBSET SecretNames
    /\ reachable \in BOOLEAN
    /\ InitLoadVars
    /\ InitPairVars
    /\ InitAppVars
    /\ InitAuditVars

\* one call of load_data; the environment answers each head_object call
Load ==
    /\ ~loaded
    /\ \E a \in [1..(2 * Len(Manifest)) -> BOOLEAN] :
         \E r \in {load_data(source, csvRows, secrets, reachable, a)} :
            /\ answers' = a
            /\ df' = r.df
            /\ skipped' = r.skipped
            /\ errors' = r.errors
            /\ probed' = r.probed
            /\ raised' = r.raised
            /\ aborted' = r.aborted
    /\ loaded' = TRUE
    /\ UNCHANGED <<envVars, pairVars, appVars, auditVars>>

NextLoad == Load

SpecLoad == InitLoad /\ [][NextLoad]_vars

(* ------------------------ Spec: the page script ------------------------ *)
\* st.session_state: key in st.session_state, and assignment to a key
Has(ss, key) == key \in DOMAIN ss

Put(ss, key, value) ==
    [x \in (DOMAIN ss) \cup {key} |-> IF x = key THEN value ELSE ss[x]]

\* sorted(...unique()) over batches and over versions
SortedBatches(S) == SelectSeq(BatchOrder, LAMBDA b : b \in S)

RECURSIVE SortedVersions(_)
SortedVersions(S) ==
    IF S = {} THEN <<>>
    ELSE LET m == CHOOSE x \in S : \A y \in S : x <= y
         IN <<m>> \o SortedVersions(S \ {m})

\* app.py:109-111, 167-169  the frame filtered by the selected batch and
\* document type, and its sorted unique versions
Filtered(frame, ss) ==
    SelectSeq(frame, LAMBDA r : r.batch = ss["batch"] /\ r.type = ss["doc_type"])

VersionsOf(frame) == SortedVersions({frame[i].version : i \in 1..Len(frame)})

\* app.py:172-173
SetVersion1(ss, versions) ==
    IF ~Has(ss, "version_1") \/ ss["version_1"] \notin Range(versions)
    THEN Put(ss, "version_1", versions[1])
    ELSE ss

\* mutant: version_2 falls back to the lowest version, not the second-lowest
SetVersion2Lowest(ss, versions) ==
    IF ~Has(ss, "version_2") \/ ss["version_2"] \notin Range(versions)
    THEN Put(ss, "version_2", versions[1])
    ELSE ss

\* app.py:174-175
SetVersion2(ss, versions) ==
    IF ~Has(ss, "version_2") \/ ss["version_2"] \notin Range(versions)
    THEN Put(ss, "version_2",
             IF Len(versions) > 1 THEN versions[2] ELSE versions[1])
    ELSE ss

\* app.py:171-175
SetVersions(ss, versions) ==
    IF Len(versions) >= 1
    THEN SetVersion2(SetVersion1(ss, versions), versions)
    ELSE ss

\* app.py:164-175
update_document_options(ss, frame) ==
    SetVersions(ss, VersionsOf(Filtered(frame, ss)))

\* if key not in st.session_state: st.session_state[key] = value
SetDefault(ss, key, value) ==
    IF Has(ss, key) THEN ss ELSE Put(ss, key, value)

\* app.py:61-71  session defaults
InitSessionState(ss) ==
    SetDefault(SetDefault(SetDefault(SetDefault(ss,
        "batch_statuses", <<>>), "audit_trail", <<>>), "review_notes", ""),
        "review_decision", "Accept")

NoPath == [dir |-> "", batch |-> "", file |-> <<>>]

\* app.py:138-143, 147-152  the record a viewer shows, or status 'Unknown'
\* and an empty path when the filtered frame has no row of that version
ViewerOf(v, v_row) ==
    IF v_row # <<>>
    THEN [version |-> v, found |-> TRUE,
          status |-> v_row[1].portal_status, reason |-> v_row[1].reason,
          file_path |-> v_row[1].file_path]
    ELSE [version |-> v, found |-> FALSE,
          status |-> "Unknown", reason |-> "", file_path |-> NoPath]

\* app.py:137-153  the viewer of version v over the filtered frame
Viewer(filtered, v) ==
    ViewerOf(v, SelectSeq(filtered, LAMBDA r : r.version = v))

\* app.py:129-130  a clicked pair button stores its pair
StorePair(ss, pair) ==
    Put(Put(Put(ss, "selected_comparison", pair), "version_1", pair[1]),
        "version_2", pair[2])

\* app.py:122-130  the pair buttons in order
RECURSIVE PressButtons(_, _, _, _)
PressButtons(ss, pairs, i, clicked) ==
    IF i > Len(pairs) THEN ss
    ELSE PressButtons(IF clicked = pairs[i] THEN StorePair(ss, pairs[i]) ELSE ss,
                      pairs, i + 1, clicked)

\* no button was clicked in this run
NoClick == <<>>

\* app.py:133-153  the page once the buttons are handled
ShowComparison(ss, batches, pairs, filtered) ==
    [session |-> ss,
     ui |-> [outcome |-> "complete",
             batches |-> batches,
             pairs |-> pairs,
             viewers |-> <<Viewer(filtered, ss["selected_comparison"][1]),
                           Viewer(filtered, ss["selected_comparison"][2])>>]]

\* app.py:113-130  the version check, the pairs, the default comparison and
\* the buttons
ComparePairs(ss, batches, filtered, versions, clicked) ==
    IF Len(versions) < 2
    THEN [session |-> ss,
          ui |-> [BlankPage EXCEPT !.outcome = "stopped_versions",
                                   !.batches = batches]]
    ELSE ShowComparison(
           PressButtons(SetDefault(ss, "selected_comparison",
                                   <<versions[1], versions[2]>>),
                        generate_comparison_pairs(versions), 1, clicked),
           batches, generate_comparison_pairs(versions), filtered)

\* app.py:109-111  the frame filtered by the session's selection
SelectDocuments(ss, frame, batches, clicked) ==
    ComparePairs(ss, batches, Filtered(frame, ss),
                 VersionsOf(Filtered(frame, ss)), clicked)

\* app.py:81-85  the batch list and the default selection
PrepareSelection(ss, frame, batches, clicked) ==
    SelectDocuments(
        SetDefault(IF batches # <<>> THEN SetDefault(ss, "batch", batches[1])
                   ELSE ss,
                   "doc_type", "CI"),
        frame, batches, clicked)

\* app.py:73-85  the result r of load_data: halt when it raised; df['batch']
\* on the column-less empty frame raises KeyError
AfterLoad(ss, r, clicked) ==
    IF r.raised
    THEN [session |-> ss, ui |-> [BlankPage EXCEPT !.outcome = "stopped_load"]]
    ELSE IF r.df = <<>>
    THEN [session |-> ss, ui |-> [BlankPage EXCEPT !.outcome = "exception"]]
    ELSE PrepareSelection(ss, r.df,
             SortedBatches({r.df[i].batch : i \in 1..Len(r.df)}), clicked)

\* app.py:33-153  one run of main() on session ss, given the result r of
\* load_data and the button clicked: the session and the page it leaves
main(ss, r, clicked) == AfterLoad(InitSessionState(ss), r, clicked)

\* the CSV manifests of the page script: rows of one status in (batch,
\* version) order, without repetition; batch B001 in every version, batch
\* B002 in its first two
GridRows ==
    {ManifestRow("B001", c, "Pending", "") : c \in Versions}
    \cup {ManifestRow("B002", c, "Pending", "") : c \in 1..2}

RowBefore(r1, r2) ==
    \/ \E i, j \in 1..Len(BatchOrder) :
          i < j /\ BatchOrder[i] = r1.Batch /\ BatchOrder[j] = r2.Batch
    \/ r1.Batch = r2.Batch /\ r1.batch_count < r2.batch_count

AppManifests ==
    {m \in SeqsUpTo(GridRows, AppMaxRows) :
        \A i \in 1..(Len(m) - 1) : RowBefore(m[i], m[i + 1])}

\* the full key probed for the k-th head_object call of a load over rows
ProbedKey(rows, k) ==
    get_full_s3_key(S3Key(DocTypes[((k - 1) % 2) + 1],
                          rows[(k + 1) \div 2].Batch,
                          rows[(k + 1) \div 2].batch_count))

KeysOf(rows) == {ProbedKey(rows, k) : k \in 1..(2 * Len(rows))}

\* the answers the store gives to the probes of one load
StoreAnswers(rows, store) ==
    [k \in 1..(2 * Len(rows)) |-> ProbedKey(rows, k) \in store]

\* the configurations of the page script: at most one secret missing, the
\* connection test failing only with every secret set; the store is varied
\* under the working configuration and complete under the others
AppSecrets == {SecretNames} \cup {SecretNames \ {x} : x \in SecretNames}

Init ==
    /\ source \in {"csv", "missing", "unreadable"}
    /\ csvRows \in (IF source = "csv" THEN AppManifests ELSE {<<>>})
    /\ secrets \in AppSecrets
    /\ reachable \in (IF secrets = SecretNames THEN BOOLEAN ELSE {TRUE})
    /\ present \in (IF secrets = SecretNames /\ reachable
                     THEN SUBSET KeysOf(Manifest)
                     ELSE {KeysOf(Manifest)})
    /\ session = <<>>
    /\ ui = BlankPage
    /\ InitLoadVars
    /\ InitPairVars
    /\ InitAuditVars

\* one execution of the script: load_data against the store, then main()
RunScript(ss, clicked) ==
    \E a \in {StoreAnswers(Manifest, present)} :
      \E r \in {load_data(source, csvRows, secrets, reachable, a)} :
        \E m \in {main(ss, r, clicked)} :
           /\ answers' = a
           /\ loaded' = TRUE
           /\ df' = r.df
           /\ skipped' = r.skipped
           /\ errors' = r.errors
           /\ probed' = r.probed
           /\ raised' = r.raised
           /\ aborted' = r.aborted
           /\ session' = m.session
           /\ ui' = m.ui
           /\ UNCHANGED <<envVars, pairVars, present, auditVars>>

SelectorsShown == ui.outcome \in {"stopped_versions", "complete"}

\* a page render without a widget event (first load, rerun)
Render == \E clicked \in {NoClick} : RunScript(session, clicked)

\* app.py:92, 156-158  another batch picked in the selectbox: the widget
\* value is stored, on_batch_change runs on the frame of the previous run,
\* then the script reruns
BatchChange ==
    /\ SelectorsShown
    /\ \E b \in Range(ui.batches) :
         /\ b # session["batch"]
         /\ \E widget \in {Put(session, "batch", b)} :
              \E ss \in {update_document_options(widget, df)} :
                 RunScript(ss, NoClick)

\* app.py:106-107, 160-162  the other document type picked in the radio
DocTypeChange ==
    /\ SelectorsShown
    /\ \E t \in Range(DocTypes) :
         /\ t # session["doc_type"]
         /\ \E widget \in {Put(session, "doc_type", t)} :
              \E ss \in {update_document_options(widget, df)} :
                 RunScript(ss, NoClick)

\* app.py:126-130  a pair button clicked: the script reruns and st.button
\* returns True for that button
PairClick ==
    /\ ui.outcome = "complete"
    /\ \E clicked \in Range(ui.pairs) : RunScript(session, clicked)

Next == Render \/ BatchChange \/ DocTypeChange \/ PairClick

Spec == Init /\ [][Next]_vars

(* -------------- SpecPairs: generate_comparison_pairs ------------------- *)
\* version values offered to the pair generator
PairValues == 1..MaxLen

InitPairs ==
    /\ source = "missing"
    /\ csvRows = <<>>
    /\ secrets = {}
    /\ reachable = FALSE
    /\ InitLoadVars
    /\ versionsIn \in SeqsUpTo(PairValues, MaxLen)
    /\ pairsOut = <<>>
    /\ called = FALSE
    /\ InitAppVars
    /\ InitAuditVars

\* one call of generate_comparison_pairs on the chosen list
Generate ==
    /\ ~called
    /\ pairsOut' = generate_comparison_pairs(versionsIn)
    /\ called' = TRUE
    /\ UNCHANGED <<envVars, loadVars, versionsIn, appVars, auditVars>>

NextPairs == Generate

SpecPairs == InitPairs /\ [][NextPairs]_vars

(* --------------------------- export_audit_trail ------------------------ *)
\* field names an audit entry may carry
AuditKeys == {"decision", "notes"}

\* a Python value held in an audit entry: a string (its characters, one
\* token per character), an integer, or None
StrValue(t) == [kind |-> "str", text |-> t, n |-> 0]
IntValue(k) == [kind |-> "int", text |-> <<>>, n |-> k]
NoneValue == [kind |-> "none", text |-> <<>>, n |-> 0]

\* the empty string, a string with the quote character, a string with the
\* delimiter and a line break
AuditTexts == {<<>>, <<"QUOTE", "a">>, <<"COMMA", "CR", "LF">>}

AuditValues == {StrValue(t) : t \in AuditTexts} \cup {IntValue(7), NoneValue}

\* entries: dictionaries over a non-empty subset of the field names
AuditEntries == UNION {[D -> AuditValues] : D \in (SUBSET AuditKeys) \ {{}}}

\* utils.py:279  set().union(*(row.keys() for row in audit_trail))
all_keys(audit_trail) == UNION {DOMAIN audit_trail[i] : i \in 1..Len(audit_trail)}

\* utils.py:280  list(all_keys): the keys in whatever order the set yields
FieldnameOrders(keys) ==
    {f \in [1..Cardinality(keys) -> keys] :
        \A i, j \in 1..Cardinality(keys) : i # j => f[i] # f[j]}

Digits == <<"0", "1", "2", "3", "4", "5", "6", "7", "8", "9">>

\* csv writer: None is written as the empty string, a string as itself,
\* anything else as str(value)
FieldText(value) ==
    IF value.kind = "none" THEN <<>>
    ELSE IF value.kind = "int" THEN <<Digits[value.n + 1]>>
    ELSE value.text

\* csv writer, QUOTE_MINIMAL: characters that force a field into quotes
Special == {"COMMA", "QUOTE", "CR", "LF"}

\* csv writer, doublequote: a quote character inside a field is doubled
RECURSIVE DoubleQuotes(_)
DoubleQuotes(t) ==
    IF t = <<>> THEN <<>>
    ELSE (IF Head(t) = "QUOTE" THEN <<"QUOTE", "QUOTE">> ELSE <<Head(t)>>)
         \o DoubleQuotes(Tail(t))

\* csv writer: one field; an empty field that is the only one of its record
\* is written as a pair of quotes
WriteField(t, only) ==
    IF (\E i \in 1..Len(t) : t[i] \in Special) \/ (only /\ t = <<>>)
    THEN <<"QUOTE">> \o DoubleQuotes(t) \o <<"QUOTE">>
    ELSE t

RECURSIVE JoinFields(_, _)
JoinFields(texts, i) ==
    IF i > Len(texts) THEN <<"CR", "LF">>
    ELSE (IF i > 1 THEN <<"COMMA">> ELSE <<>>)
         \o WriteField(texts[i], Len(texts) = 1)
         \o JoinFields(texts, i + 1)

\* csv writer: one record, fields separated by commas, ended by CR LF
writerow(texts) == JoinFields(texts, 1)

\* csv.DictWriter.writeheader: the field names as a record
writeheader(fieldnames) == writerow([j \in 1..Len(fieldnames) |-> <<fieldnames[j]>>])

\* a row's values with the fields it lacks left out, so that later columns
\* move to the left
RowValuesPresentOnly(row, fieldnames) ==
    LET kept == SelectSeq(fieldnames, LAMBDA k : k \in DOMAIN row)
    IN [j \in 1..Len(kept) |-> row[kept[j]]]

\* utils.py:287  {key: row.get(key) for key in fieldnames}
RowValues(row, fieldnames) ==
    [j \in 1..Len(fieldnames) |->
        IF fieldnames[j] \in DOMAIN row THEN row[fieldnames[j]] ELSE NoneValue]

RECURSIVE WriteRows(_, _, _)
WriteRows(audit_trail, fieldnames, i) ==
    IF i > Len(audit_trail) THEN <<>>
    ELSE (LET values == RowValues(audit_trail[i], fieldnames)
          IN writerow([j \in 1..Len(values) |-> FieldText(values[j])]))
         \o WriteRows(audit_trail, fieldnames, i + 1)

\* utils.py:274-304  the text export_audit_trail returns when list(all_keys)
\* comes out as fieldnames
export_audit_trail(audit_trail, fieldnames) ==
    IF audit_trail = <<>> THEN <<>>
    ELSE writeheader(fieldnames) \o WriteRows(audit_trail, fieldnames, 1)

InitAudit ==
    /\ source = "missing"
    /\ csvRows = <<>>
    /\ secrets = {}
    /\ reachable = FALSE
    /\ InitLoadVars
    /\ InitPairVars
    /\ InitAppVars
    /\ auditIn \in SeqsUpTo(AuditEntries, MaxEntries)
    /\ csvOut = <<>>
    /\ auditStored = FALSE
    /\ exported = FALSE

\* one call of export_audit_trail: an empty trail returns at once; otherwise
\* the text is built, upload_file_to_s3 reports success or failure without
\* raising, and the text is returned either way
Export ==
    /\ ~exported
    /\ \E fieldnames \in FieldnameOrders(all_keys(auditIn)) :
       \E uploaded \in (IF auditIn = <<>> THEN {FALSE} ELSE BOOLEAN) :
          /\ csvOut' = export_audit_trail(auditIn, fieldnames)
          /\ auditStored' = uploaded
    /\ exported' = TRUE
    /\ UNCHANGED <<envVars, loadVars, pairVars, appVars, auditIn>>

NextAudit == Export

SpecAudit == InitAudit /\ [][NextAudit]_vars

(* ----------------------- ground truth for a load ----------------------- *)
\* the probe could be constructed: both credentials set and the connection
\* test passed
ClientBuilt ==
    /\ "access_key_id" \in secrets
    /\ "secret_access_key" \in secrets
    /\ reachable

BucketConfigured == "bucket_name" \in secrets

\* the load reached its reconciliation loop
Reconciled == loaded /\ source # "unreadable" /\ BucketConfigured

\* the k-th (manifest row, docType) combination in manifest row order, CI
\* before PL
CrossRow(k) == Manifest[(k + 1) \div 2]
CrossType(k) == IF k % 2 = 1 THEN "CI" ELSE "PL"
CrossKey(k) ==
    [prefix |-> "Doc_Review/",
     key |-> [dir |-> CrossType(k), batch |-> CrossRow(k).Batch,
              file |-> <<CrossRow(k).Batch, CrossRow(k).batch_count, "pdf">>]]
NumCombos == 2 * Len(Manifest)

\* the k-th existence check succeeded: the environment answered yes to a
\* client that exists
Present(k) == ClientBuilt /\ answers[k]

IsRecordOf(rec, b, t, v) == rec.batch = b /\ rec.type = t /\ rec.version = v

AllBatches == Range(BatchOrder)
TypeSet == {"CI", "PL"}

(* -------------------------------- C1 ----------------------------------- *)
\* C1: after load_data, a record for (batch, docType, version) is in the
\* output if and only if the manifest has that (batch, version) row and the
\* head_object check on its storage key succeeded during the load; every
\* record carries the portal status of such a manifest row, never an error
\* status of its own.
C1_RecordIffPresent ==
    loaded =>
      /\ \A b \in AllBatches, t \in TypeSet, v \in Versions :
           (\E i \in 1..Len(df) : IsRecordOf(df[i], b, t, v))
           <=> /\ Reconciled
               /\ \E k \in 1..NumCombos :
                    /\ CrossRow(k).Batch = b
                    /\ CrossRow(k).batch_count = v
                    /\ CrossType(k) = t
                    /\ Present(k)
                    /\ Len(probed) >= k
                    /\ probed[k].key = CrossKey(k)
      /\ \A i \in 1..Len(df) :
           \E k \in 1..NumCombos :
              /\ Present(k)
              /\ IsRecordOf(df[i], CrossRow(k).Batch, CrossType(k),
                            CrossRow(k).batch_count)
              /\ df[i].portal_status = CrossRow(k).portal_status
              /\ df[i].reason = CrossRow(k).reason

\* a load that emitted one combination and dropped another
C1_Witness ==
    /\ loaded
    /\ df # <<>>
    /\ \E k \in 1..NumCombos :
         /\ ~Present(k)
         /\ ~\E i \in 1..Len(df) :
               IsRecordOf(df[i], CrossRow(k).Batch, CrossType(k),
                          CrossRow(k).batch_count)

(* -------------------------------- C2 ----------------------------------- *)
CountRecords(b, t, v) ==
    Cardinality({i \in 1..Len(df) : IsRecordOf(df[i], b, t, v)})

CountSkipped(b, t, v) ==
    Cardinality({i \in 1..Len(skipped) :
        skipped[i] = [prefix |-> "Doc_Review/",
                      key |-> [dir |-> t, batch |-> b,
                               file |-> <<b, v, "pdf">>]]})

CountRows(b, v) ==
    Cardinality({i \in 1..Len(Manifest) :
        Manifest[i].Batch = b /\ Manifest[i].batch_count = v})

\* C2: when the load is not cut short before its loop, records plus skipped
\* entries number the manifest rows times 2, and every (manifest row,
\* docType) combination is in exactly one of the two: per combination the
\* records and the skipped entries together number the manifest rows that
\* carry it.
C2_RecordsPlusSkipped ==
    Reconciled =>
      /\ Len(df) + Len(skipped) = 2 * Len(Manifest)
      /\ \A b \in AllBatches, t \in TypeSet, v \in Versions :
           CountRecords(b, t, v) + CountSkipped(b, t, v) = CountRows(b, v)

\* a load with both emitted records and skipped entries
C2_Witness ==
    /\ Reconciled
    /\ Len(df) >= 2
    /\ Len(skipped) >= 1

(* -------------------------------- C3 ----------------------------------- *)
NumPresentUpTo(k) == Cardinality({m \in 1..k : Present(m)})

\* C3: the records are the manifest-row x [CI, PL] sequence with the absent
\* combinations removed: the k-th combination, when present, is the record
\* at the position that counts the present combinations up to k.
C3_ManifestOrder ==
    Reconciled =>
      /\ Len(df) = NumPresentUpTo(NumCombos)
      /\ \A k \in 1..NumCombos :
           Present(k) =>
             IsRecordOf(df[NumPresentUpTo(k)], CrossRow(k).Batch,
                        CrossType(k), CrossRow(k).batch_count)

\* two different rows, a combination removed between two emitted ones
C3_Witness ==
    /\ Reconciled
    /\ Len(Manifest) >= 2
    /\ Manifest[1] # Manifest[2]
    /\ \E k \in 2..(NumCombos - 1) :
         /\ ~Present(k)
         /\ Present(k - 1)
         /\ Present(k + 1)
    /\ Present(1) /\ Present(2)

(* -------------------------------- C7 ----------------------------------- *)
FailedProbes == {k \in 1..NumCombos : ~answers[k]}

\* C7: when head_object raises for exactly one key, that key alone is
\* skipped and every other combination, before or after it, is emitted.
C7_SingleFailureSkipped ==
    (Reconciled /\ ClientBuilt /\ Cardinality(FailedProbes) = 1) =>
      LET f == CHOOSE k \in FailedProbes : TRUE
      IN /\ skipped = <<CrossKey(f)>>
         /\ Len(df) = NumCombos - 1
         /\ \A k \in (1..NumCombos) \ {f} :
              \E i \in 1..Len(df) :
                 /\ IsRecordOf(df[i], CrossRow(k).Batch, CrossType(k),
                               CrossRow(k).batch_count)
                 /\ i = IF k < f THEN k ELSE k - 1

\* the failing key has combinations before and after it
C7_Witness ==
    /\ Reconciled /\ ClientBuilt
    /\ Cardinality(FailedProbes) = 1
    /\ \E f \in FailedProbes : 1 < f /\ f < NumCombos /\ f % 2 = 1
    /\ Len(df) = NumCombos - 1

(* -------------------------------- C8 ----------------------------------- *)
\* C8: when the probe cannot be constructed (no client) or no bucket name is
\* configured, load_data aborts: nothing is probed or skipped key by key,
\* the record set is empty and a diagnostic is produced.
C8_ConfigAborts ==
    (loaded /\ source # "unreadable" /\ (~ClientBuilt \/ ~BucketConfigured)) =>
      /\ df = <<>>
      /\ probed = <<>>
      /\ skipped = <<>>
      /\ errors # <<>>

(* -------------------------------- C4 ----------------------------------- *)
Ascending(v) == \A i \in 1..(Len(v) - 1) : v[i] < v[i + 1]

Distinct(v) == \A i, j \in 1..Len(v) : i # j => v[i] # v[j]

\* C4: for an ascending list of k >= 3 distinct versions the result has
\* exactly k pairs: the k-1 adjacent pairs in order, then the full-span pair
\* (first, last) as the last element.
C4_AdjacentThenSpan ==
    (called /\ Len(versionsIn) >= 3 /\ Ascending(versionsIn)) =>
      LET k == Len(versionsIn)
      IN /\ Len(pairsOut) = k
         /\ \A i \in 1..(k - 1) :
              pairsOut[i] = <<versionsIn[i], versionsIn[i + 1]>>
         /\ pairsOut[k] = <<versionsIn[1], versionsIn[k]>>

\* the spec's example [1,2,3,4] -> [(1,2),(2,3),(3,4),(1,4)]
C4_Witness ==
    /\ called
    /\ versionsIn = <<1, 2, 3, 4>>
    /\ pairsOut = << <<1, 2>>, <<2, 3>>, <<3, 4>>, <<1, 4>> >>

(* -------------------------------- C5 ----------------------------------- *)
\* C5: a version list of length 0 or 1 gives the empty sequence.
C5_ShortListEmpty ==
    (called /\ Len(versionsIn) < 2) => pairsOut = <<>>

\* a call on a one-element list
C5_Witness ==
    /\ called
    /\ Len(versionsIn) = 1
    /\ pairsOut = <<>>

(* -------------------------------- C6 ----------------------------------- *)
\* C6: for a list of distinct versions no pair occurs twice in the result,
\* and a list of exactly 2 versions [a, b] gives exactly [(a, b)].
C6_NoDuplicatePair ==
    (called /\ Distinct(versionsIn)) =>
      /\ \A i, j \in 1..Len(pairsOut) : i # j => pairsOut[i] # pairsOut[j]
      /\ Len(versionsIn) = 2 =>
           pairsOut = << <<versionsIn[1], versionsIn[2]>> >>

\* a call on two distinct versions
C6_Witness ==
    /\ called
    /\ Len(versionsIn) = 2
    /\ versionsIn[1] # versionsIn[2]
    /\ Len(pairsOut) = 1

(* -------------------------------- C9 ----------------------------------- *)
\* C9: when the manifest source cannot be read, load_data raises to its
\* caller with no partial result, and the page halts on the message (the
\* st.stop() of main's except clause) instead of going on to the record
\* table.
C9_UnreadableManifestRaises ==
    (loaded /\ source = "unreadable") =>
      /\ raised
      /\ df = <<>>
      /\ ui.outcome = "stopped_load"

(* -------------------------------- C10 ---------------------------------- *)
\* the store holds a document of the batch that the manifest lists, and the
\* load could probe for it
HasReconciledDocument(b) ==
    /\ source # "unreadable"
    /\ ClientBuilt
    /\ BucketConfigured
    /\ \E i \in 1..Len(Manifest), t \in TypeSet :
         /\ Manifest[i].Batch = b
         /\ [prefix |-> "Doc_Review/",
             key |-> [dir |-> t, batch |-> b,
                      file |-> <<b, Manifest[i].batch_count, "pdf">>]]
            \in present

InManifest(b) == \E i \in 1..Len(Manifest) : Manifest[i].Batch = b

\* C10: after a run of the page script a batch is among the options of the
\* batch selector if and only if at least one of its documents, of either
\* type and any version, was found present; the options are in sorted order
\* without repetition.
C10_SelectorListsReconciledBatches ==
    loaded =>
      /\ \A b \in AllBatches :
           b \in Range(ui.batches) <=> HasReconciledDocument(b)
      /\ \A i, j \in 1..Len(ui.batches) :
           i < j => \E m, n \in 1..Len(BatchOrder) :
                       /\ m < n
                       /\ BatchOrder[m] = ui.batches[i]
                       /\ BatchOrder[n] = ui.batches[j]

\* the selector is shown; one listed batch has all its objects missing and
\* is not offered, another has documents of the PL type only and is offered
C10_Witness ==
    /\ SelectorsShown
    /\ \E b \in AllBatches :
         /\ InManifest(b)
         /\ b \notin Range(ui.batches)
    /\ \E b \in Range(ui.batches) :
         \A i \in 1..Len(df) : df[i].batch = b => df[i].type = "PL"

(* -------------------------------- C13 ---------------------------------- *)
\* C13: whenever the two viewers are rendered, the stored
\* selected_comparison is one of the pairs generated for the selected
\* (batch, docType), and both of its versions resolve to a record of the
\* filtered frame (no viewer falls back to status 'Unknown' with an empty
\* file path).
C13_SelectedPairIsCurrent ==
    ui.outcome = "complete" =>
      /\ session["selected_comparison"] \in Range(ui.pairs)
      /\ \A i \in 1..2 :
           /\ ui.viewers[i].found
           /\ ui.viewers[i].status # "Unknown"
           /\ ui.viewers[i].file_path # NoPath

(* -------------------------------- C14 ---------------------------------- *)
\* the versions of (b, t) that the manifest lists and the store holds, when
\* the load can probe for them
StoredVersions(b, t) ==
    {v \in Versions :
        /\ source # "unreadable"
        /\ ClientBuilt
        /\ BucketConfigured
        /\ \E i \in 1..Len(Manifest) :
             /\ Manifest[i].Batch = b
             /\ Manifest[i].batch_count = v
             /\ [prefix |-> "Doc_Review/",
                 key |-> [dir |-> t, batch |-> b, file |-> <<b, v, "pdf">>]]
                \in present}

Lowest(V) == CHOOSE x \in V : \A y \in V : x <= y

\* the value a session key holds after the callback: kept when it was set
\* and is a member of V, the fallback otherwise
KeptOrFallback(old, new, key, V, fallback) ==
    /\ Has(new, key)
    /\ new[key] \in V
    /\ new[key] = IF Has(old, key) /\ old[key] \in V THEN old[key] ELSE fallback

\* a step in which the batch or the document type selection changed: the
\* steps that run update_document_options
SelectionChanged(old, new) ==
    /\ Has(old, "batch") /\ Has(old, "doc_type")
    /\ new["batch"] # old["batch"] \/ new["doc_type"] # old["doc_type"]

CallbackKeepsVersions(old, new, V) ==
    V # {} =>
      /\ KeptOrFallback(old, new, "version_1", V, Lowest(V))
      /\ KeptOrFallback(old, new, "version_2", V,
                        IF Cardinality(V) > 1 THEN Lowest(V \ {Lowest(V)})
                        ELSE Lowest(V))

\* C14: right after a batch or document type change, when the new selection
\* has at least one version, version_1 and version_2 are versions of that
\* selection: a value that already was one is unchanged, otherwise version_1
\* is the lowest version and version_2 the second-lowest (the lowest when
\* there is only one).
C14_VersionsFollowSelection ==
    [][SelectionChanged(session, session') =>
         CallbackKeepsVersions(session, session',
             StoredVersions(session'["batch"], session'["doc_type"]))]_vars

\* the callback has replaced both versions by the two lowest of the new
\* selection while the displayed comparison is still the earlier one
C14_Witness ==
    /\ ui.outcome = "complete"
    /\ Has(session, "version_1") /\ Has(session, "version_2")
    /\ <<session["version_1"], session["version_2"]>>
         # session["selected_comparison"]
    /\ session["version_1"]
         = Lowest(StoredVersions(session["batch"], session["doc_type"]))
    /\ session["version_2"] # session["version_1"]
    /\ session["version_2"] \in StoredVersions(session["batch"], session["doc_type"])

(* ------------------------- reading the export back --------------------- *)
\* csv.reader over the exported text: a record ends at a line feed outside
\* quotes, a quoted field runs to its closing quote with doubled quotes
\* read as one, and a carriage return outside quotes must be followed by a
\* line feed (anything else is a reader error, read here as no records)
RECURSIVE ParseFrom(_, _, _, _, _, _)
ParseFrom(text, i, state, field, row, rows) ==
    IF i > Len(text) THEN
        IF state = "START_RECORD" THEN rows
        ELSE IF state = "EAT_CRNL" THEN Append(rows, row)
        ELSE Append(rows, Append(row, field))
    ELSE IF state = "IN_QUOTED_FIELD" THEN
        IF text[i] = "QUOTE"
        THEN ParseFrom(text, i + 1, "QUOTE_IN_QUOTED_FIELD", field, row, rows)
        ELSE ParseFrom(text, i + 1, state, Append(field, text[i]), row, rows)
    ELSE IF state = "EAT_CRNL" THEN
        IF text[i] = "LF"
        THEN ParseFrom(text, i + 1, "START_RECORD", <<>>, <<>>, Append(rows, row))
        ELSE IF text[i] = "CR"
        THEN ParseFrom(text, i + 1, state, field, row, rows)
        ELSE <<>>
    ELSE IF state = "START_RECORD" /\ text[i] = "LF" THEN
        ParseFrom(text, i + 1, "START_RECORD", <<>>, <<>>, Append(rows, <<>>))
    ELSE IF state = "START_RECORD" /\ text[i] = "CR" THEN
        ParseFrom(text, i + 1, "EAT_CRNL", <<>>, <<>>, rows)
    ELSE IF state = "QUOTE_IN_QUOTED_FIELD" /\ text[i] = "QUOTE" THEN
        ParseFrom(text, i + 1, "IN_QUOTED_FIELD", Append(field, "QUOTE"), row, rows)
    ELSE IF state \in {"START_RECORD", "START_FIELD"} /\ text[i] = "QUOTE" THEN
        ParseFrom(text, i + 1, "IN_QUOTED_FIELD", <<>>, row, rows)
    ELSE IF text[i] = "LF" THEN
        ParseFrom(text, i + 1, "START_RECORD", <<>>, <<>>,
                  Append(rows, Append(row, field)))
    ELSE IF text[i] = "CR" THEN
        ParseFrom(text, i + 1, "EAT_CRNL", <<>>, Append(row, field), rows)
    ELSE IF text[i] = "COMMA" THEN
        ParseFrom(text, i + 1, "START_FIELD", <<>>, Append(row, field), rows)
    ELSE
        ParseFrom(text, i + 1, "IN_FIELD", Append(field, text[i]), row, rows)

ParseCsv(text) == ParseFrom(text, 1, "START_RECORD", <<>>, <<>>, <<>>)

\* the first record of the export names each key of the trail exactly once
HeaderIsUnionOfKeys(parsed, trail) ==
    /\ Len(parsed) >= 1
    /\ Len(parsed[1]) = Cardinality(all_keys(trail))
    /\ {parsed[1][j] : j \in 1..Len(parsed[1])} = {<<k>> : k \in all_keys(trail)}

\* one data record per entry, in insertion order, one field per header field
OneRowPerEntry(parsed, trail) ==
    /\ Len(parsed) = Len(trail) + 1
    /\ \A i \in 1..Len(trail) : Len(parsed[i + 1]) = Len(parsed[1])

\* what a reader holds for a field: always a string
ReadBack(parsed, i, j) == StrValue(parsed[i + 1][j])

\* the entry's own value under the j-th header field, the empty string when
\* the entry has no such field
OriginalOrEmpty(parsed, trail, i, j) ==
    IF parsed[1][j][1] \in DOMAIN trail[i]
    THEN trail[i][parsed[1][j][1]]
    ELSE StrValue(<<>>)

\* the string a value is written as: a string is itself, a number is its
\* decimal digits, None is the empty string
AsWritten(value) ==
    IF value.kind = "str" THEN value
    ELSE IF value.kind = "int" THEN StrValue(<<Digits[value.n + 1]>>)
    ELSE StrValue(<<>>)

\* C12 as stated: the export of a non-empty trail has the union of the keys
\* as its header and one data row per entry in insertion order, and reading
\* it back gives, for every row and header field, the original value when
\* the entry had the field and the empty string when it did not.
C12_RoundTripGivesOriginalValue ==
    (exported /\ auditIn # <<>>) =>
      \E parsed \in {ParseCsv(csvOut)} :
        /\ HeaderIsUnionOfKeys(parsed, auditIn)
        /\ OneRowPerEntry(parsed, auditIn)
        /\ \A i \in 1..Len(auditIn) : \A j \in 1..Len(parsed[1]) :
              ReadBack(parsed, i, j) = OriginalOrEmpty(parsed, auditIn, i, j)

\* C12 amended: same header and rows, and reading the export back gives,
\* for every row and header field, the original value as the writer renders
\* it (a string unchanged, a number as its digits, None as the empty
\* string) when the entry had the field, and the empty string when it did
\* not.
C12_RoundTripGivesWrittenForm ==
    (exported /\ auditIn # <<>>) =>
      \E parsed \in {ParseCsv(csvOut)} :
        /\ HeaderIsUnionOfKeys(parsed, auditIn)
        /\ OneRowPerEntry(parsed, auditIn)
        /\ \A i \in 1..Len(auditIn) : \A j \in 1..Len(parsed[1]) :
              ReadBack(parsed, i, j) = AsWritten(OriginalOrEmpty(parsed, auditIn, i, j))

\* an exported trail of two entries where the first lacks a field the second
\* has, with a quoted string, a number and a None among the values
C12_Witness ==
    /\ exported
    /\ Len(auditIn) = 2
    /\ DOMAIN auditIn[1] = {"notes"}
    /\ DOMAIN auditIn[2] = AuditKeys
    /\ auditIn[1]["notes"] = StrValue(<<"COMMA", "CR", "LF">>)
    /\ auditIn[2]["notes"] = NoneValue
    /\ auditIn[2]["decision"] = IntValue(7)
    /\ ParseCsv(csvOut) = << <<<<"notes">>, <<"decision">>>>,
                            <<<<"COMMA", "CR", "LF">>, <<>>>>,
                            <<<<>>, <<"7">>>> >>

====
